---- MODULE Spec2Model ----
(***************************************************************************)
(* Model of fmriprep/workflows/fieldmap/base.py: the selection of a        *)
(* susceptibility-distortion-correction strategy and the assembly of the   *)
(* workflow graph by init_sdc_wf(layout, fmaps, ...).                      *)
(*                                                                         *)
(* One call of init_sdc_wf is followed statement by statement.  pc names   *)
(* the statement about to run; a Python exception ends the call with       *)
(* pc = "raised" and the exception recorded in `raised`.                   *)
(***************************************************************************)
EXTENDS Integers, Sequences, FiniteSets

\* Longest list of discovered field-map descriptors explored.
MaxLen == 3

\* ------------------------------------------------------------------------
\* Constants of the source

\* base.py:51-56
FMAP_PRIORITY ==
    [t \in {"epi", "fieldmap", "phasediff", "syn"} |->
        CASE t = "epi" -> 0
          [] t = "fieldmap" -> 1
          [] t = "phasediff" -> 2
          [] t = "syn" -> 3]

\* A descriptor type BIDS knows and FMAP_PRIORITY does not list.
UnrecognizedTypes == {"phase1"}

DescriptorTypes == DOMAIN FMAP_PRIORITY \cup UnrecognizedTypes

\* base.py:76-78
InputnodeFields ==
    {"name_source", "bold_ref", "bold_ref_brain", "bold_mask",
     "fmap", "fmap_ref", "fmap_mask", "t1_brain", "t1_seg",
     "t1_2_mni_reverse_transform", "itk_t1_to_bold"}

\* base.py:82-83
OutputnodeFields ==
    {"bold_ref", "bold_mask", "bold_ref_brain",
     "out_warp", "out_report", "syn_sdc_report"}

\* base.py:103, 114, 172
MethodPepolar == "PEB/PEPOLAR (phase-encoding based / PE-POLARity)"
MethodFMB(t) == IF t = "fieldmap" THEN "FMB (fieldmap-based)"
                ELSE "FMB (phasediff-based)"
MethodSyn == "FLB (fieldmap-less SyN)"

\* ------------------------------------------------------------------------
\* Values

\* A name of the function body that no statement has bound yet.
Unbound == "<unbound>"
UnboundFmap == [type |-> Unbound, files |-> 0]
NoException == [exc |-> "none", line |-> 0, name |-> ""]

\* One connection: in workflow `graph`, port `out` of node `src` feeds port
\* `in` of node `dst`.
Edge(g, s, o, d, i) == [graph |-> g, src |-> s, out |-> o, dst |-> d, in |-> i]

\* Lists of descriptors: the i-th discovered descriptor carries file
\* identifier i, so that two descriptors of one type can be told apart.
Descriptors(types) == [i \in 1..Len(types) |-> [type |-> types[i], files |-> i]]

TypeLists == UNION {[1..n -> DescriptorTypes] : n \in 0..MaxLen}

TypesOf(f) == {f[i].type : i \in 1..Len(f)}

\* ------------------------------------------------------------------------
\* Pure helpers

\* The caller's rule of the docstring table (base.py:24-34): SyN is requested
\* by appending a {'type': 'syn'} descriptor when it is forced, or when it is
\* allowed and no field map was found.
CallerFmaps(found, useSyn, forceSyn) ==
    IF forceSyn \/ (useSyn /\ found = <<>>)
    THEN Append(found, [type |-> "syn", files |-> Len(found) + 1])
    ELSE found

AllSupported(f) == TypesOf(f) # {} /\ TypesOf(f) \subseteq DOMAIN FMAP_PRIORITY

\* base.py:71  set(types).intersection(FMAP_PRIORITY) is non-empty
AnySupported(f) == TypesOf(f) \cap DOMAIN FMAP_PRIORITY # {}

\* list.sort is stable: x goes after every element whose key is <= its own.
RECURSIVE Insert(_, _)
Insert(x, s) ==
    IF s = <<>> THEN <<x>>
    ELSE IF FMAP_PRIORITY[Head(s).type] <= FMAP_PRIORITY[x.type]
         THEN <<Head(s)>> \o Insert(x, Tail(s))
         ELSE <<x>> \o s

RECURSIVE SortFrom(_, _)
SortFrom(s, acc) ==
    IF s = <<>> THEN acc ELSE SortFrom(Tail(s), Insert(Head(s), acc))

SortOmitted(s) == s

\* base.py:98  fmaps.sort(key=lambda fmap: FMAP_PRIORITY[fmap['type']])
SortByPriority(s) == SortFrom(s, <<>>)

IsEpi(d) == d.type = "epi"

\* base.py:104  [fmap_['epi'] for fmap_ in fmaps if fmap_['type'] == 'epi']
EpiFmaps(f) ==
    LET e == SelectSeq(f, IsEpi) IN [i \in 1..Len(e) |-> e[i].files]

BypassEdgesCrossed ==
    {Edge("workflow", "inputnode", "bold_ref", "outputnode", "bold_ref"),
     Edge("workflow", "inputnode", "bold_mask", "outputnode", "bold_ref_brain"),
     Edge("workflow", "inputnode", "bold_ref_brain", "outputnode", "bold_mask")}

\* base.py:88-92
BypassEdges ==
    {Edge("workflow", "inputnode", f, "outputnode", f) :
        f \in {"bold_ref", "bold_mask", "bold_ref_brain"}}

\* base.py:162-168
SynInputEdges ==
    {Edge("workflow", "inputnode", "t1_brain", "syn_sdc_wf", "inputnode.t1_brain"),
     Edge("workflow", "inputnode", "t1_seg", "syn_sdc_wf", "inputnode.t1_seg"),
     Edge("workflow", "inputnode", "t1_2_mni_reverse_transform", "syn_sdc_wf",
          "inputnode.t1_2_mni_reverse_transform"),
     Edge("workflow", "inputnode", "bold_ref_brain", "syn_sdc_wf", "inputnode.bold_ref")}

\* base.py:175-178
SynReportEdges ==
    {Edge("workflow", "syn_sdc_wf", "outputnode.out_warp_report",
          "outputnode", "syn_sdc_report")}

\* base.py:180-185: connect is called on the workflow bound to sdc_unwarp_wf,
\* from syn_sdc_wf to outputnode.
UnwarpOutputEdges(unwarp) ==
    {Edge(unwarp, "syn_sdc_wf", "outputnode.out_warp", "outputnode", "inputnode.out_warp"),
     Edge(unwarp, "syn_sdc_wf", "outputnode.out_reference_brain", "outputnode",
          "inputnode.ref_bold_brain"),
     Edge(unwarp, "syn_sdc_wf", "outputnode.out_mask", "outputnode",
          "inputnode.ref_bold_mask")}

\* Input ports of the nodes of the graph.  inputnode and outputnode are
\* declared in base.py; the sub-workflows declare theirs in their own modules.
DeclaredInputs(node) ==
    CASE node = "outputnode" -> OutputnodeFields
      [] node = "inputnode" -> InputnodeFields
      [] node = "syn_sdc_wf" ->
            {"inputnode.t1_brain", "inputnode.t1_seg",
             "inputnode.t1_2_mni_reverse_transform", "inputnode.bold_ref"}
      [] node = "sdc_unwarp_wf" ->
            {"inputnode.fmap", "inputnode.fmap_ref", "inputnode.fmap_mask"}
      [] node = "fmap_unwarp_report_wf" ->
            {"inputnode.in_seg", "inputnode.name_source", "inputnode.in_pre",
             "inputnode.in_xfm", "inputnode.in_post"}
      [] OTHER -> {}

\* ------------------------------------------------------------------------
\* State

VARIABLES
    found,            \* descriptors the caller discovered for the BOLD run
    use_syn,          \* --use-syn
    force_syn,        \* --force-syn
    fmaps,            \* the caller's list object, passed as `fmaps`
    fmaps_local,      \* what the local name fmaps refers to: "list" or "None"
    pc,               \* statement of init_sdc_wf about to run
    wf_name,          \* workflow.name
    inputnode,        \* fields of inputnode
    outputnode,       \* fields of outputnode
    sdc_method,       \* workflow.sdc_method
    edges,            \* connections made so far
    instantiated,     \* sub-workflows built so far
    fmap,             \* local fmap (fmaps[0] after the sort)
    epi_fmaps,        \* files handed to init_pepolar_unwarp_wf
    sdc_unwarp_wf,    \* local sdc_unwarp_wf
    syn_sdc_wf,       \* local syn_sdc_wf
    result,           \* "pending", "workflow" (returned) or "exception"
    raised            \* the exception that ended the call

vars == <<found, use_syn, force_syn, fmaps, fmaps_local, pc, wf_name, inputnode,
          outputnode, sdc_method, edges, instantiated, fmap, epi_fmaps,
          sdc_unwarp_wf, syn_sdc_wf, result, raised>>

inputs == <<found, use_syn, force_syn>>
graph == <<wf_name, inputnode, outputnode, sdc_method, edges, instantiated>>
locals == <<fmap, epi_fmaps, sdc_unwarp_wf, syn_sdc_wf>>

\* The list as the caller passed it.
Passed == CallerFmaps(found, use_syn, force_syn)

Terminal == {"done", "raised"}

Init ==
    /\ found \in {Descriptors(t) : t \in TypeLists}
    /\ use_syn \in BOOLEAN
    /\ force_syn \in BOOLEAN
    /\ fmaps = found
    /\ fmaps_local = "list"
    /\ pc = "caller"
    /\ wf_name = Unbound
    /\ inputnode = {}
    /\ outputnode = {}
    /\ sdc_method = Unbound
    /\ edges = {}
    /\ instantiated = {}
    /\ fmap = UnboundFmap
    /\ epi_fmaps = <<>>
    /\ sdc_unwarp_wf = Unbound
    /\ syn_sdc_wf = Unbound
    /\ result = "pending"
    /\ raised = NoException

Raise(exc, line, name) ==
    /\ pc' = "raised"
    /\ result' = "exception"
    /\ raised' = [exc |-> exc, line |-> line, name |-> name]

Goto(next) ==
    /\ pc' = next
    /\ UNCHANGED <<result, raised>>

\* ------------------------------------------------------------------------
\* Steps

\* The caller builds the list and calls init_sdc_wf.
Call ==
    /\ pc = "caller"
    /\ fmaps' = CallerFmaps(found, use_syn, force_syn)
    /\ Goto("filter")
    /\ UNCHANGED <<inputs, fmaps_local, graph, locals>>

\* base.py:71-72
FilterSupported ==
    /\ pc = "filter"
    /\ fmaps_local' = IF AnySupported(fmaps) THEN "list" ELSE "None"
    /\ Goto("create")
    /\ UNCHANGED <<inputs, fmaps, graph, locals>>

\* `fmaps` as a truth value
Truthy == fmaps_local = "list" /\ fmaps # <<>>

\* base.py:74-84
CreateWorkflow ==
    /\ pc = "create"
    /\ wf_name' = IF Truthy THEN "sdc_wf" ELSE "sdc_bypass_wf"
    /\ inputnode' = InputnodeFields
    /\ outputnode' = OutputnodeFields
    /\ Goto("branch")
    /\ UNCHANGED <<inputs, fmaps, fmaps_local, sdc_method, edges, instantiated, locals>>

\* base.py:87-93
Bypass ==
    /\ pc = "branch"
    /\ ~Truthy
    /\ edges' = edges \cup BypassEdges
    /\ pc' = "done"
    /\ result' = "workflow"
    /\ UNCHANGED <<inputs, fmaps, fmaps_local, wf_name, inputnode, outputnode,
                   sdc_method, instantiated, locals, raised>>

\* base.py:95-99.  The sort computes every key before it moves anything: a
\* type missing from FMAP_PRIORITY raises KeyError and leaves the list as it was.
Rank ==
    /\ pc = "branch"
    /\ Truthy
    /\ IF TypesOf(fmaps) \subseteq DOMAIN FMAP_PRIORITY
       THEN /\ fmaps' = SortByPriority(fmaps)
            /\ fmap' = Head(fmaps')
            /\ Goto("pepolar")
       ELSE /\ Raise("KeyError", 98, "FMAP_PRIORITY")
            /\ UNCHANGED <<fmaps, fmap>>
    /\ UNCHANGED <<inputs, fmaps_local, graph, epi_fmaps, sdc_unwarp_wf, syn_sdc_wf>>

\* base.py:102-110
PepolarPath ==
    /\ pc = "pepolar"
    /\ IF fmap.type = "epi"
       THEN /\ sdc_method' = MethodPepolar
            /\ epi_fmaps' = EpiFmaps(fmaps)
            /\ instantiated' = instantiated \cup {"pepolar_unwarp_wf"}
            /\ sdc_unwarp_wf' = "pepolar_unwarp_wf"
       ELSE UNCHANGED <<sdc_method, epi_fmaps, instantiated, sdc_unwarp_wf>>
    /\ Goto("fieldmap")
    /\ UNCHANGED <<inputs, fmaps, fmaps_local, wf_name, inputnode, outputnode,
                   edges, fmap, syn_sdc_wf>>

\* base.py:113-153.  reportlets_dir is neither a parameter, a local nor a
\* module global: evaluating the arguments of init_fmap_wf (line 122) or of
\* init_phdiff_wf (line 132) raises NameError before either is called.
FieldmapPath ==
    /\ pc = "fieldmap"
    /\ IF fmap.type \in {"fieldmap", "phasediff"}
       THEN /\ sdc_method' = MethodFMB(fmap.type)
            /\ Raise("NameError", IF fmap.type = "fieldmap" THEN 122 ELSE 132,
                     "reportlets_dir")
       ELSE /\ Goto("syn")
            /\ UNCHANGED sdc_method
    /\ UNCHANGED <<inputs, fmaps, fmaps_local, wf_name, inputnode, outputnode,
                   edges, instantiated, locals>>

\* base.py:156-178
SynPath ==
    /\ pc = "syn"
    /\ IF fmaps[Len(fmaps)].type = "syn"
       THEN /\ instantiated' = instantiated \cup {"syn_sdc_wf"}
            /\ syn_sdc_wf' = "syn_sdc_wf"
            /\ IF Len(fmaps) = 1
               THEN /\ sdc_method' = MethodSyn
                    /\ sdc_unwarp_wf' = "syn_sdc_wf"
                    /\ edges' = edges \cup SynInputEdges
               ELSE /\ edges' = edges \cup SynInputEdges \cup SynReportEdges
                    /\ UNCHANGED <<sdc_method, sdc_unwarp_wf>>
       ELSE UNCHANGED <<instantiated, syn_sdc_wf, sdc_method, sdc_unwarp_wf, edges>>
    /\ Goto("final")
    /\ UNCHANGED <<inputs, fmaps, fmaps_local, wf_name, inputnode, outputnode,
                   fmap, epi_fmaps>>

\* base.py:180-185.  The names are read left to right: sdc_unwarp_wf, then
\* syn_sdc_wf; an unassigned local raises UnboundLocalError.  With both bound
\* the request goes to the engine's connect, here accepting it.
ConnectUnwarpOutputs ==
    /\ pc = "final"
    /\ IF sdc_unwarp_wf = Unbound
       THEN /\ Raise("UnboundLocalError", 180, "sdc_unwarp_wf")
            /\ UNCHANGED edges
       ELSE IF syn_sdc_wf = Unbound
       THEN /\ Raise("UnboundLocalError", 181, "syn_sdc_wf")
            /\ UNCHANGED edges
       ELSE /\ edges' = edges \cup UnwarpOutputEdges(sdc_unwarp_wf)
            /\ Goto("report")
    /\ UNCHANGED <<inputs, fmaps, fmaps_local, wf_name, inputnode, outputnode,
                   sdc_method, instantiated, locals>>

\* base.py:180-185, the engine's connect refusing the request: the ports it
\* names on outputnode are not fields of outputnode, and when sdc_unwarp_wf
\* is syn_sdc_wf the workflow is asked to contain itself.
ConnectUnwarpOutputsRefused ==
    /\ pc = "final"
    /\ sdc_unwarp_wf # Unbound
    /\ syn_sdc_wf # Unbound
    /\ Raise("Exception", 180, "connect")
    /\ UNCHANGED <<inputs, fmaps, fmaps_local, graph, locals>>

\* base.py:187-199.  reportlets_dir (line 189) is undefined: NameError before
\* init_fmap_unwarp_report_wf is called.
ReportPath ==
    /\ pc = "report"
    /\ Raise("NameError", 189, "reportlets_dir")
    /\ UNCHANGED <<inputs, fmaps, fmaps_local, graph, locals>>

Next ==
    \/ Call
    \/ FilterSupported
    \/ CreateWorkflow
    \/ Bypass
    \/ Rank
    \/ PepolarPath
    \/ FieldmapPath
    \/ SynPath
    \/ ConnectUnwarpOutputs
    \/ ConnectUnwarpOutputsRefused
    \/ ReportPath

Spec == Init /\ [][Next]_vars

TypeOK ==
    /\ pc \in {"caller", "filter", "create", "branch", "pepolar", "fieldmap",
               "syn", "final", "report", "done", "raised"}
    /\ fmaps_local \in {"list", "None"}
    /\ result \in {"pending", "workflow", "exception"}
    /\ (pc = "raised") = (result = "exception")
    /\ (pc = "done") = (result = "workflow")

\* ------------------------------------------------------------------------
\* Properties

Recognized(f) == SelectSeq(f, LAMBDA d : d.type \in DOMAIN FMAP_PRIORITY)

\* Some type of the list is in the priority table and some is not.
Mixed(f) ==
    /\ \E i \in 1..Len(f) : f[i].type \in {"epi", "fieldmap", "phasediff", "syn"}
    /\ \E i \in 1..Len(f) : f[i].type \notin {"epi", "fieldmap", "phasediff", "syn"}

\* No type of the list is in the priority table (the empty list included).
NoneRecognized(f) ==
    \A i \in 1..Len(f) : f[i].type \notin {"epi", "fieldmap", "phasediff", "syn"}

\* The lowest priority number among the recognized descriptors of f.
MinPriority(f) ==
    LET ps == {FMAP_PRIORITY[t] : t \in TypesOf(Recognized(f))}
    IN  CHOOSE p \in ps : \A q \in ps : p <= q

Ranked == fmap # UnboundFmap

\* Edges of the outer workflow that leave node s and enter node d.
Between(s, d) == {e \in edges : e.src = s /\ e.dst = d}

Ports(es) == {<<e.out, e.in>> : e \in es}

\* C1: once the list is ranked, the descriptor chosen (fmaps[0]) has the
\* lowest priority number present in the list passed, whatever the order of
\* that list; when the list holds an epi descriptor the pepolar strategy is
\* the one bound as the unwarp stage and labelled on the workflow, and a
\* fieldmap or phasediff winner labels the workflow with its own type.
C1_PriorityWinner ==
    Ranked =>
        /\ FMAP_PRIORITY[fmap.type] = MinPriority(Passed)
        /\ (pc # "pepolar" /\ "epi" \in TypesOf(Passed)) =>
              /\ fmap.type = "epi"
              /\ sdc_unwarp_wf = "pepolar_unwarp_wf"
              /\ sdc_method = MethodPepolar
              /\ "pepolar_unwarp_wf" \in instantiated
        /\ (pc # "pepolar" /\ "epi" \notin TypesOf(Passed)) =>
              "pepolar_unwarp_wf" \notin instantiated
        /\ (pc \notin {"pepolar", "fieldmap"}
                /\ fmap.type \in {"fieldmap", "phasediff"}) =>
              sdc_method = MethodFMB(fmap.type)

\* An epi descriptor listed after a phasediff and a syn descriptor wins.
C1_Witness ==
    /\ Ranked
    /\ pc \notin {"pepolar", "fieldmap"}
    /\ Len(Passed) = 3
    /\ Passed[1].type = "phasediff"
    /\ Passed[3].type = "epi"
    /\ "syn" \in TypesOf(Passed)
    /\ sdc_unwarp_wf = "pepolar_unwarp_wf"

\* C2: with no descriptor found and neither --use-syn nor --force-syn, the
\* call returns the bypass workflow: exactly the three edges bold_ref,
\* bold_mask and bold_ref_brain from inputnode to the outputnode field of the
\* same name, and no sub-workflow built.
C2_EmptyBypass ==
    (found = <<>> /\ ~use_syn /\ ~force_syn
            /\ pc \notin {"caller", "filter", "create", "branch"}) =>
        /\ pc = "done"
        /\ result = "workflow"
        /\ wf_name = "sdc_bypass_wf"
        /\ instantiated = {}
        /\ edges =
            {[graph |-> "workflow", src |-> "inputnode", out |-> "bold_ref",
              dst |-> "outputnode", in |-> "bold_ref"],
             [graph |-> "workflow", src |-> "inputnode", out |-> "bold_mask",
              dst |-> "outputnode", in |-> "bold_mask"],
             [graph |-> "workflow", src |-> "inputnode", out |-> "bold_ref_brain",
              dst |-> "outputnode", in |-> "bold_ref_brain"]}

C2_Witness ==
    /\ found = <<>> /\ ~use_syn /\ ~force_syn
    /\ pc = "done"
    /\ Cardinality(edges) = 3

\* C3: with no descriptor found and --use-syn or --force-syn, the call
\* returns a workflow that is not the bypass, whose only correction
\* sub-workflow is syn_sdc_wf, bound as the unwarp stage, and whose outputs
\* reach the outer outputs out_warp, bold_ref_brain and bold_mask.
C3_SynOnlyPrimary ==
    (found = <<>> /\ (use_syn \/ force_syn) /\ pc \in Terminal) =>
        /\ result = "workflow"
        /\ wf_name = "sdc_wf"
        /\ instantiated \ {"fmap_unwarp_report_wf"} = {"syn_sdc_wf"}
        /\ sdc_unwarp_wf = "syn_sdc_wf"
        /\ {"out_warp", "bold_ref_brain", "bold_mask"} \subseteq
              {e.in : e \in {x \in Between("syn_sdc_wf", "outputnode") :
                                x.graph = "workflow"}}

\* C4: when epi, fieldmap or phasediff wins and a syn descriptor is in the
\* list too, the finished graph holds the primary correction chain and a
\* syn_sdc_wf instance, and the only edge from syn_sdc_wf into outputnode is
\* out_warp_report -> syn_sdc_report.
C4_SupplementarySyn ==
    (/\ pc \in Terminal
     /\ TypesOf(Passed) \subseteq DOMAIN FMAP_PRIORITY
     /\ "syn" \in TypesOf(Passed)
     /\ TypesOf(Passed) # {"syn"}) =>
        /\ Ranked
        /\ IF fmap.type = "epi"
           THEN "pepolar_unwarp_wf" \in instantiated
           ELSE "sdc_unwarp_wf" \in instantiated
        /\ "syn_sdc_wf" \in instantiated
        /\ Ports(Between("syn_sdc_wf", "outputnode")) =
              {<<"outputnode.out_warp_report", "syn_sdc_report">>}

\* C5: every call returns a workflow to its caller, and that workflow's
\* inputnode and outputnode carry exactly the fixed field sets.
C5_ReturnsFixedPorts ==
    pc \in Terminal =>
        /\ result = "workflow"
        /\ inputnode =
              {"name_source", "bold_ref", "bold_ref_brain", "bold_mask", "fmap",
               "fmap_ref", "fmap_mask", "t1_brain", "t1_seg",
               "t1_2_mni_reverse_transform", "itk_t1_to_bold"}
        /\ outputnode =
              {"bold_ref", "bold_mask", "bold_ref_brain", "out_warp",
               "out_report", "syn_sdc_report"}

\* C6: a call that ends on the bypass branch has built no report
\* sub-workflow; every other call ends with fmap_unwarp_report_wf built, fed
\* t1_seg, name_source, bold_ref and itk_t1_to_bold from inputnode and
\* out_reference from the unwarp stage, and feeding outputnode.out_report.
C6_ReportAttached ==
    pc \in Terminal =>
        IF wf_name = "sdc_bypass_wf"
        THEN "fmap_unwarp_report_wf" \notin instantiated
        ELSE /\ "fmap_unwarp_report_wf" \in instantiated
             /\ Ports(Between("inputnode", "fmap_unwarp_report_wf")) =
                   {<<"t1_seg", "inputnode.in_seg">>,
                    <<"name_source", "inputnode.name_source">>,
                    <<"bold_ref", "inputnode.in_pre">>,
                    <<"itk_t1_to_bold", "inputnode.in_xfm">>}
             /\ sdc_unwarp_wf # Unbound
             /\ <<"outputnode.out_reference", "inputnode.in_post">> \in
                   Ports(Between(sdc_unwarp_wf, "fmap_unwarp_report_wf"))
             /\ \E e \in Between("fmap_unwarp_report_wf", "outputnode") :
                   e.in = "out_report"

\* C7 as stated: a list that mixes recognized and unrecognized types is
\* ranked as its recognized members alone, the ranking step raising no
\* error, and a list with no recognized type ends as the bypass.
C7_FilteredBeforeRanking ==
    /\ raised.exc # "KeyError"
    /\ (Mixed(Passed) /\ pc \in Terminal) =>
          /\ Ranked
          /\ FMAP_PRIORITY[fmap.type] = MinPriority(Passed)
    /\ (NoneRecognized(Passed) /\ pc \in Terminal) =>
          (pc = "done" /\ wf_name = "sdc_bypass_wf")

\* C7, amended: a list with no recognized type ends as the bypass graph; a
\* list that mixes recognized and unrecognized types is not filtered: it
\* passes the bypass check and the ranking step raises KeyError, before any
\* edge is made or sub-workflow built, leaving the list as passed.
C7_UnrecognizedTypes ==
    /\ (NoneRecognized(Passed) /\ pc \in Terminal) =>
          /\ pc = "done"
          /\ wf_name = "sdc_bypass_wf"
          /\ Ports(edges) = {<<"bold_ref", "bold_ref">>, <<"bold_mask", "bold_mask">>,
                             <<"bold_ref_brain", "bold_ref_brain">>}
    /\ (Mixed(Passed) /\ pc \notin {"caller", "filter", "create", "branch"}) =>
          /\ pc = "raised"
          /\ raised.exc = "KeyError"
          /\ wf_name = "sdc_wf"
          /\ ~Ranked
          /\ edges = {}
          /\ instantiated = {}
          /\ fmaps = Passed

C7_Witness ==
    /\ Mixed(Passed)
    /\ Passed[1].type = "epi"
    /\ pc = "raised"
    /\ raised.exc = "KeyError"

\* C8: a call that reaches the final wiring (line 180) without having taken
\* the bypass has exactly one primary correction sub-workflow bound as the
\* unwarp stage.
C8_PrimaryChosen ==
    pc \in {"final", "report"} =>
        /\ wf_name = "sdc_wf"
        /\ sdc_unwarp_wf \in {"pepolar_unwarp_wf", "sdc_unwarp_wf", "syn_sdc_wf"}
        /\ sdc_unwarp_wf \in instantiated

\* C9: every edge made enters a port its destination node declares, and no
\* port is entered by two edges.
C9_PortsDeclaredOnce ==
    /\ \A e \in edges : e.in \in DeclaredInputs(e.dst)
    /\ \A e1, e2 \in edges :
          (e1.dst = e2.dst /\ e1.in = e2.in) => e1 = e2

\* C10: from the call on, on every branch, the list the caller passed holds
\* the same descriptors, with the same contents, in the same order as when
\* it was passed.
C10_ListUnchanged ==
    pc # "caller" => fmaps = Passed
====
